---- MODULE Spec2Model ----
(***************************************************************************)
(* Model of models/detectors/ctrnet/loss.py: the Criterion of the detector *)
(* (quality focal loss, GIoU box loss, auxiliary encoded-box loss, the     *)
(* foreground normalisation with its all-reduce, and the dual-branch merge *)
(* of Criterion.__call__).                                                 *)
(*                                                                         *)
(* Real numbers are fixed point with three decimals: One stands for 1.0.   *)
(* Tensors are sequences; a [B, M, ...] tensor is a sequence over images   *)
(* of sequences over anchors, and a flattened [B*M, ...] tensor is a       *)
(* sequence over 1..B*M in image-major order.                              *)
(***************************************************************************)
EXTENDS Integers, Sequences, FiniteSets, TLC

(* ------------------------------ bounds -------------------------------- *)
BatchSize == 1
NumClasses == 2
MaxEpoch == 2
MaxWorld == 2

(* --------------------------- program constants ------------------------ *)
One == 1000
beta == 2
epoch_default == 0

(* ------------------------------ arithmetic ---------------------------- *)
Max(a, b) == IF a >= b THEN a ELSE b
Min(a, b) == IF a <= b THEN a ELSE b
Abs(a) == IF a >= 0 THEN a ELSE 0 - a

RECURSIVE Pow(_, _)
\* x.pow(n) in fixed point
Pow(x, n) == IF n = 0 THEN One ELSE (x * Pow(x, n - 1)) \div One

RECURSIVE SumSeq(_)
\* tensor.sum() of a flat tensor
SumSeq(s) == IF s = <<>> THEN 0 ELSE Head(s) + SumSeq(Tail(s))

RECURSIVE Flatten(_)
\* torch.cat(list, dim=0) / tensor.view(-1, ...): image-major flattening
Flatten(ss) == IF ss = <<>> THEN <<>> ELSE Head(ss) \o Flatten(Tail(ss))

\* tensor[inds]: gather the rows named by an index tensor
Gather(t, inds) == [k \in 1..Len(inds) |-> t[inds[k]]]

\* x[None].repeat(bs, 1, 1).view(-1, ...): a per-anchor tensor tiled over the batch
RepeatFlat(t, bs) == Flatten([b \in 1..bs |-> t])

RECURSIVE NonZero(_, _)
\* mask.nonzero().squeeze(1): the increasing sequence of indices where mask holds
NonZero(mask, i) ==
    IF i > Len(mask) THEN <<>>
    ELSE IF mask[i] THEN <<i>> \o NonZero(mask, i + 1)
         ELSE NonZero(mask, i + 1)

\* the set of the entries of an index tensor
Range(s) == {s[k] : k \in DOMAIN s}

(* ------------------------- tabulated real functions ------------------- *)
\* pred_cls.sigmoid()
Sigmoid(x) == CASE x = -2 -> 119 [] x = 0 -> 500 [] x = 2 -> 881
\* log(1 + exp(x))
Softplus(x) == CASE x = -2 -> 127 [] x = 0 -> 693 [] x = 2 -> 2127
\* F.binary_cross_entropy_with_logits(x, t, reduction='none'), elementwise:
\* max(x, 0) - x * t + log(1 + exp(-|x|)) = softplus(x) - x * t
BCEWithLogits(x, t) == Softplus(x) - x * t
\* torch.log of a ratio num / den, for the ratios the boxes of this model produce
Ln(num, den) ==
    CASE num = den -> 0
      [] num = 2 * den -> 693
      [] 2 * num = den -> 0 - 693
      [] num = 4 * den -> 1386

(* ------------------------------ box geometry -------------------------- *)
BoxArea(b) == Max(b[3] - b[1], 0) * Max(b[4] - b[2], 0)

\* utils.box_ops.get_ious(b1, b2, box_mode="xyxy", iou_type='giou') of one pair
get_ious(b1, b2) ==
    LET iw == Max(Min(b1[3], b2[3]) - Max(b1[1], b2[1]), 0)
        ih == Max(Min(b1[4], b2[4]) - Max(b1[2], b2[2]), 0)
        inter == iw * ih
        union == BoxArea(b1) + BoxArea(b2) - inter
        cw == Max(b1[3], b2[3]) - Min(b1[1], b2[1])
        ch == Max(b1[4], b2[4]) - Min(b1[2], b2[2])
        enclose == cw * ch
    IN  (inter * One) \div union - ((enclose - union) * One) \div enclose

(* ------------------------- basic loss functions ----------------------- *)
\* the foreground index tensor: ((label >= 0) & (label < bg_class_ind)).nonzero().squeeze(1)
fg_inds(label, bg_class_ind) ==
    NonZero([i \in 1..Len(label) |-> (label[i] >= 0) /\ (label[i] < bg_class_ind)], 1)

\* ce_loss before the override: BCE against a zero target, scaled by sigmoid^beta
zero_target_loss(x) == (BCEWithLogits(x, 0) * Pow(Sigmoid(x), beta)) \div One

\* the value written at [pos, pos_label]: BCE against the score, scaled by |score - sigmoid|^beta
quality_focal_loss(x, s) ==
    (BCEWithLogits(x, s) * Pow(Abs(s - Sigmoid(x)), beta)) \div (One * One)

\* loss_classes writing the override into every channel of a foreground anchor
loss_classes_whole_row(pred_cls, label, score) ==
    LET pos == fg_inds(label, Len(pred_cls[1]))
    IN  [i \in 1..Len(pred_cls) |->
           [c \in 1..Len(pred_cls[i]) |->
              IF i \in Range(pos)
              THEN quality_focal_loss(pred_cls[i][c], score[i])
              ELSE zero_target_loss(pred_cls[i][c])]]

\* Criterion.loss_classes(pred_cls, (label, score)): the [N x C] loss matrix
loss_classes(pred_cls, label, score) ==
    LET bg_class_ind == Len(pred_cls[1])
        pos == fg_inds(label, bg_class_ind)
        ce_loss == [i \in 1..Len(pred_cls) |->
                      [c \in 1..Len(pred_cls[i]) |-> zero_target_loss(pred_cls[i][c])]]
    IN  [i \in 1..Len(pred_cls) |->
           [c \in 1..Len(pred_cls[i]) |->
              IF i \in Range(pos) /\ c = label[i] + 1
              THEN quality_focal_loss(pred_cls[i][c], score[i])
              ELSE ce_loss[i][c]]]

\* Criterion.loss_bboxes(pred_box, gt_box): 1 - GIoU per foreground sample
loss_bboxes(pred_box, gt_box) ==
    [k \in 1..Len(pred_box) |-> One - get_ious(pred_box[k], gt_box[k])]

\* Criterion.loss_bboxes_aux(pred_reg, gt_box, anchors, stride_tensors): [K x 4] L1 loss
loss_bboxes_aux(pred_reg, gt_box, anchors, stride_tensors) ==
    [k \in 1..Len(pred_reg) |->
       LET g == gt_box[k]
           gt_cxcy == << ((g[1] + g[3]) * One) \div 2, ((g[2] + g[4]) * One) \div 2 >>
           gt_bwbh == << g[3] - g[1], g[4] - g[2] >>
           gt_box_encode ==
               << (gt_cxcy[1] - anchors[k][1] * One) \div stride_tensors[k],
                  (gt_cxcy[2] - anchors[k][2] * One) \div stride_tensors[k],
                  Ln(gt_bwbh[1], stride_tensors[k]),
                  Ln(gt_bwbh[2], stride_tensors[k]) >>
       IN  [j \in 1..4 |-> Abs(pred_reg[k][j] - gt_box_encode[j])]]

(* --------------------------- task loss function ----------------------- *)
\* Python truth value of an argument that is an int or a bool (False = 0, True = 1)
Truthy(v) == v # 0

\* the assigner instance compute_loss invokes for every image of the batch
matcher_for(aux_loss) == IF ~Truthy(aux_loss) THEN "matcher" ELSE "aux_matcher"

\* num_fgs taken as the number of foreground anchors
fg_mass_count(assign_metrics) ==
    One * Cardinality({i \in DOMAIN assign_metrics : assign_metrics[i] > 0})

\* num_fgs = assign_metrics.sum()
fg_mass(assign_metrics) == SumSeq(assign_metrics)

\* utils.distributed_utils.get_world_size()
get_world_size(comm) == IF comm.dist THEN comm.size ELSE 1

\* the clamp applied before the division by the world size
normalize_fgs_clamp_first(num_fgs, world_size) == Max(num_fgs, One) \div world_size

\* (num_fgs / get_world_size()).clamp(1.0).item()
normalize_fgs(num_fgs, world_size) == Max(num_fgs \div world_size, One)

\* the gate with a strict comparison
aux_loss_active_strict(epoch, self) == epoch > (self.max_epoch - self.no_aug_epoch - 1)

\* the gate of the auxiliary regression loss
aux_loss_active(epoch, self) == epoch >= (self.max_epoch - self.no_aug_epoch - 1)

\* the two weights exchanged
weighted_sum_swapped(self, loss_cls, loss_box) ==
    self.loss_box_weight * loss_cls + self.loss_cls_weight * loss_box

\* losses = loss_cls_weight * loss_cls + loss_box_weight * loss_box
weighted_sum(self, loss_cls, loss_box) ==
    self.loss_cls_weight * loss_cls + self.loss_box_weight * loss_box

\* the loss dictionary of one branch; loss_box_aux is <<>> for None, <<v>> otherwise
make_loss_dict(loss_cls, loss_box, loss_box_aux, losses) ==
    IF loss_box_aux = <<>>
    THEN [loss_cls |-> loss_cls, loss_box |-> loss_box, losses |-> losses]
    ELSE [loss_cls |-> loss_cls, loss_box |-> loss_box,
          loss_box_aux |-> loss_box_aux[1], losses |-> losses]

\* Criterion.compute_loss(outputs, targets, aux_loss, epoch).  assigned[b] is what
\* the invoked assigner returns for image b; reduced is the value of num_fgs after
\* the all-reduce (the local value when no process group is initialised).
compute_loss(self, outputs, assigned, aux_loss, epoch, comm, reduced) ==
    LET bs == Len(outputs.pred_cls)
        cls_targets == Flatten([b \in 1..bs |-> assigned[b].assigned_labels])
        box_targets == Flatten([b \in 1..bs |-> assigned[b].assigned_bboxes])
        assign_metrics == Flatten([b \in 1..bs |-> assigned[b].assign_metrics])
        bg_class_ind == self.num_classes
        pos_inds == fg_inds(cls_targets, bg_class_ind)
        num_fgs == normalize_fgs(reduced, get_world_size(comm))
        cls_preds == Flatten(outputs.pred_cls)
        ce_loss == loss_classes(cls_preds, cls_targets, assign_metrics)
        loss_cls == (SumSeq(Flatten(ce_loss)) * One) \div num_fgs
        box_preds_pos == Gather(Flatten(outputs.pred_box), pos_inds)
        box_targets_pos == Gather(box_targets, pos_inds)
        loss_box == (SumSeq(loss_bboxes(box_preds_pos, box_targets_pos)) * One) \div num_fgs
        active == aux_loss_active(epoch, self)
        reg_preds_pos == Gather(Flatten(outputs.pred_reg), pos_inds)
        anchors_tensors_pos == Gather(RepeatFlat(outputs.anchors, bs), pos_inds)
        stride_tensors_pos == Gather(RepeatFlat(outputs.stride_tensors, bs), pos_inds)
        aux_sum == SumSeq(Flatten(loss_bboxes_aux(reg_preds_pos, box_targets_pos,
                                                  anchors_tensors_pos, stride_tensors_pos)))
        loss_box_aux == IF active THEN << (aux_sum * One) \div num_fgs >> ELSE <<>>
        losses == weighted_sum(self, loss_cls, loss_box)
                  + (IF active THEN loss_box_aux[1] ELSE 0)
    IN  [loss_dict |-> make_loss_dict(loss_cls, loss_box, loss_box_aux, losses),
         matcher_calls |-> [b \in 1..bs |-> matcher_for(aux_loss)],
         epoch |-> epoch,
         cls_preds |-> cls_preds,
         cls_targets |-> cls_targets,
         assign_metrics |-> assign_metrics,
         pos_inds |-> pos_inds,
         local_fgs |-> fg_mass(assign_metrics),
         num_fgs |-> num_fgs,
         ce_loss |-> ce_loss]

(* ------------------------------- inputs ------------------------------- *)
\* outputs['anchors'] and outputs['stride_tensors']: a stride-8 level of two anchor points
anchors == << <<4, 4>>, <<12, 4>> >>
\* a stride-8 level of five anchor points, the shard of a process of a group
shard_anchors == << <<4, 4>>, <<12, 4>>, <<20, 4>>, <<28, 4>>, <<36, 4>> >>

\* the logit the class head emits at image b, anchor a, channel c
LogitAt(seed, b, a, c) ==
    CASE (seed + b + a + c) % 3 = 0 -> -2
      [] (seed + b + a + c) % 3 = 1 -> 0
      [] (seed + b + a + c) % 3 = 2 -> 2

\* a prediction bundle of the network: [B, M, C] logits, [B, M, 4] boxes and raw regressions
MakeOutputs(seed, pts) ==
    [pred_cls |-> [b \in 1..BatchSize |-> [a \in 1..Len(pts) |->
                     [c \in 1..NumClasses |-> LogitAt(seed, b, a, c)]]],
     pred_box |-> [b \in 1..BatchSize |-> [a \in 1..Len(pts) |->
                     << pts[a][1] - 4, 0, pts[a][1] + 4 + 8 * ((seed + b) % 2), 8 >>]],
     pred_reg |-> [b \in 1..BatchSize |-> [a \in 1..Len(pts) |->
                     IF (seed + b + a) % 2 = 0 THEN <<0, 0, 0, 0>>
                                               ELSE <<500, 0 - 500, 693, 0>>]],
     anchors |-> pts,
     stride_tensors |-> [a \in 1..Len(pts) |-> 8]]

\* the network output of one step: the main bundle with the nested auxiliary bundle
NetOutputs(seed, pts) ==
    [main |-> MakeOutputs(seed, pts), aux_outputs |-> MakeOutputs(seed + 1, pts)]

\* what an assigner can return for one anchor: background (label num_classes, zero
\* metric) or one of the two ground-truth objects of the image with its quality metric
AnchorAssignments ==
    { [label |-> NumClasses, bbox |-> <<0, 0, 0, 0>>, metric |-> 0],
      [label |-> 0, bbox |-> <<0, 0, 8, 8>>, metric |-> 300],
      [label |-> NumClasses - 1, bbox |-> <<0, 0, 16, 16>>, metric |-> One] }

\* a label outside the assigner's contract: negative
StrayAssignments ==
    { [label |-> 0 - 1, bbox |-> <<0, 0, 0, 0>>, metric |-> 0] }

\* the assigned_result dictionary of one image, from its per-anchor outcomes
AssignedResult(f) ==
    [assigned_labels |-> [a \in DOMAIN f |-> f[a].label],
     assigned_bboxes |-> [a \in DOMAIN f |-> f[a].bbox],
     assign_metrics |-> [a \in DOMAIN f |-> f[a].metric]]

\* every assigned_result of one image whose anchors take their outcomes in perAnchor
AssignedResults(perAnchor) ==
    { AssignedResult(f) : f \in [1..Len(anchors) -> perAnchor] }

\* the Criterion objects: args.max_epoch, args.no_aug_epoch and the cfg loss weights
Criterions(weights) ==
    { [num_classes |-> NumClasses, max_epoch |-> m, no_aug_epoch |-> n,
       loss_cls_weight |-> w[1], loss_box_weight |-> w[2]] :
         m \in 1..MaxEpoch, n \in 0..(MaxEpoch - 1), w \in weights }

\* the process group: none initialised, or one of 1..MaxWorld processes
Comms ==
    { [dist |-> FALSE, size |-> 1] } \cup { [dist |-> TRUE, size |-> w] : w \in 1..MaxWorld }

\* what the other processes of the group add to num_fgs in the all-reduce
PeerSums(comm) == IF comm.dist /\ comm.size > 1 THEN {0, 5 * One} ELSE {0}

\* utils.distributed_utils.is_dist_avail_and_initialized()
is_dist_avail_and_initialized(comm) == comm.dist

\* the collective skipped by a process whose shard has no foreground mass
enters_all_reduce_if_fg(num_fgs, comm) == is_dist_avail_and_initialized(comm) /\ num_fgs > 0

\* whether compute_loss enters the collective: the guard of the all_reduce call
enters_all_reduce(num_fgs, comm) == is_dist_avail_and_initialized(comm)

\* torch.distributed.all_reduce(num_fgs): the sum over the group, in place
all_reduce(num_fgs, peers) == num_fgs + peers

\* num_fgs after "if is_dist_avail_and_initialized(): all_reduce(num_fgs)"
reduced_fgs(num_fgs, comm, peers) ==
    IF enters_all_reduce(num_fgs, comm) THEN all_reduce(num_fgs, peers) ELSE num_fgs

(* -------------------------------- state ------------------------------- *)
VARIABLES
    self,            \* the Criterion object
    comm,            \* the process group of this process
    outputs,         \* the network output of the training step
    epoch,           \* the epoch index the training loop passes to __call__
    pc,              \* position inside Criterion.__call__
    main_run,        \* the first compute_loss of __call__: internals and main_loss_dict
    aux_run,         \* the second compute_loss of __call__: internals and aux_loss_dict
    loss_dict,       \* the dictionary __call__ returns
    direct,          \* a direct call of compute_loss: arguments, internals, result
    procs,           \* per process of a group: position, all-reduce calls, results
    collectives      \* the all-reduce operations of the group, in call order

vars == << self, comm, outputs, epoch, pc, main_run, aux_run, loss_dict,
           direct, procs, collectives >>

callVars == << epoch, pc, main_run, aux_run, loss_dict >>
groupVars == << procs, collectives >>

(* ------------------- compute_loss called on its own ------------------- *)
InitBranch ==
    /\ self \in Criterions({<<1, 2>>})
    /\ comm \in Comms
    /\ outputs \in {NetOutputs(0, anchors), NetOutputs(1, anchors)}
    /\ direct = [pc |-> "ready"]
    /\ epoch = 0 /\ pc = "idle"
    /\ main_run = <<>> /\ aux_run = <<>> /\ loss_dict = <<>>
    /\ procs = <<>> /\ collectives = <<>>

\* criterion.compute_loss(outputs, targets, aux_loss, epoch)
ComputeLossDirect ==
    /\ direct.pc = "ready"
    /\ \E aux_loss \in {0, 1}, e \in 0..MaxEpoch, peers \in PeerSums(comm),
          assigned \in [1..BatchSize -> AssignedResults(AnchorAssignments \cup StrayAssignments)] :
         LET local == fg_mass(Flatten([b \in 1..BatchSize |-> assigned[b].assign_metrics]))
             run == compute_loss(self, outputs.main, assigned, aux_loss, e, comm,
                                 reduced_fgs(local, comm, peers))
         IN  direct' = [pc |-> "returned", aux_loss |-> aux_loss, run |-> run]
    /\ UNCHANGED << self, comm, outputs, callVars, groupVars >>

NextBranch == ComputeLossDirect

SpecBranch == InitBranch /\ [][NextBranch]_vars

(* -------------------------- Criterion.__call__ ------------------------ *)
\* dict[k] = v
DictSet(d, k, v) == [x \in (DOMAIN d) \cup {k} |-> IF x = k THEN v ELSE d[x]]

\* the keys of a branch dictionary in insertion order
KeysOf(d) ==
    SelectSeq(<< "loss_cls", "loss_box", "loss_box_aux", "losses" >>,
              LAMBDA k : k \in DOMAIN d)

RECURSIVE CopyKeysNoSkip(_, _, _, _)
\* the copy loop without the "k != 'losses'" test
CopyKeysNoSkip(dst, src, keys, suffix) ==
    IF keys = <<>> THEN dst
    ELSE CopyKeysNoSkip(DictSet(dst, Head(keys) \o suffix, src[Head(keys)]),
                        src, Tail(keys), suffix)

RECURSIVE CopyKeys(_, _, _, _)
\* for k in src: if k != 'losses': dst[k + suffix] = src[k]
CopyKeys(dst, src, keys, suffix) ==
    IF keys = <<>> THEN dst
    ELSE LET k == Head(keys)
         IN  CopyKeys(IF k # "losses" THEN DictSet(dst, k \o suffix, src[k]) ELSE dst,
                      src, Tail(keys), suffix)

\* the "Reformat loss dict" part of __call__
merge_loss_dicts(main_loss_dict, aux_loss_dict) ==
    LET d0 == [k \in {"losses"} |-> main_loss_dict["losses"] + aux_loss_dict["losses"]]
        d1 == CopyKeys(d0, main_loss_dict, KeysOf(main_loss_dict), "")
    IN  CopyKeys(d1, aux_loss_dict, KeysOf(aux_loss_dict), "_aux")

\* how __call__ binds compute_loss's parameters (outputs, targets, aux_loss=False, epoch=0):
\* the call is self.compute_loss(outputs, targets, epoch), three positional arguments
bind_call_args(epoch_arg) == [aux_loss |-> epoch_arg, epoch |-> epoch_default]

\* one compute_loss of __call__ on a bundle, with the assigner results and the
\* other processes' all-reduce contribution as inputs
branch_runs(bundle, epoch_arg) ==
    { compute_loss(self, bundle, assigned, bind_call_args(epoch_arg).aux_loss,
                   bind_call_args(epoch_arg).epoch, comm,
                   reduced_fgs(fg_mass(Flatten([b \in 1..BatchSize |->
                                   assigned[b].assign_metrics])), comm, peers)) :
        assigned \in [1..BatchSize ->
                        AssignedResults({r \in AnchorAssignments : r.label # 0})],
        peers \in PeerSums(comm) }

Init ==
    /\ self \in Criterions({<<1, 2>>})
    /\ comm \in Comms
    /\ outputs = NetOutputs(0, anchors)
    /\ epoch \in 0..(self.max_epoch - 1)
    /\ pc = "start"
    /\ main_run = <<>> /\ aux_run = <<>> /\ loss_dict = <<>>
    /\ direct = <<>> /\ procs = <<>> /\ collectives = <<>>

\* main_loss_dict = self.compute_loss(outputs, targets, epoch)
CallMain ==
    /\ pc = "start"
    /\ main_run' \in branch_runs(outputs.main, epoch)
    /\ pc' = "main_done"
    /\ UNCHANGED << self, comm, outputs, epoch, aux_run, loss_dict, direct, groupVars >>

\* aux_loss_dict = self.compute_loss(outputs['aux_outputs'], targets, epoch)
CallAux ==
    /\ pc = "main_done"
    /\ aux_run' \in branch_runs(outputs.aux_outputs, epoch)
    /\ pc' = "aux_done"
    /\ UNCHANGED << self, comm, outputs, epoch, main_run, loss_dict, direct, groupVars >>

\* the merge of the two dictionaries and the return
CallReturn ==
    /\ pc = "aux_done"
    /\ loss_dict' = merge_loss_dicts(main_run.loss_dict, aux_run.loss_dict)
    /\ pc' = "returned"
    /\ UNCHANGED << self, comm, outputs, epoch, main_run, aux_run, direct, groupVars >>

Next == CallMain \/ CallAux \/ CallReturn

Spec == Init /\ [][Next]_vars

(* ---------------- __call__ on every process of a group ---------------- *)
Procs == 1..comm.size

\* the assigner outcomes of image 1 of a shard: no foreground anchor; five foreground
\* anchors of qualities 1.0, 1.0, 0.4, 0.3, 0.3; five foreground anchors of quality 1.0
ShardSamples ==
    LET bg == [label |-> NumClasses, bbox |-> <<0, 0, 0, 0>>, metric |-> 0]
        lo(m) == [label |-> 0, bbox |-> <<0, 0, 8, 8>>, metric |-> m]
        hi == [label |-> NumClasses - 1, bbox |-> <<0, 0, 16, 16>>, metric |-> One]
    IN  { [a \in 1..5 |-> bg],
          [a \in 1..5 |-> IF a <= 2 THEN hi ELSE IF a = 3 THEN lo(400) ELSE lo(300)],
          [a \in 1..5 |-> hi] }

\* the assigner results of a shard: image 1 as sampled, every other image without
\* ground truth (all anchors background)
ShardAssigned ==
    { [b \in 1..BatchSize |->
         IF b = 1 THEN AssignedResult(f) ELSE AssignedResult(CHOOSE g \in ShardSamples :
                                                 \A a \in 1..5 : g[a].metric = 0)] :
      f \in ShardSamples }

\* the sum of the contributions made to the n-th collective by the processes in ps
RECURSIVE SumOver(_, _)
SumOver(f, ps) ==
    IF ps = {} THEN 0
    ELSE LET q == CHOOSE x \in ps : TRUE IN f[q] + SumOver(f, ps \ {q})

InitDist ==
    /\ self \in { c \in Criterions({<<1, 2>>}) :
                    c.max_epoch = MaxEpoch /\ c.no_aug_epoch \in {0, MaxEpoch - 1} }
    /\ comm \in { c \in Comms : c.dist }
    /\ outputs = NetOutputs(0, shard_anchors)
    /\ epoch \in {0, MaxEpoch - 1}
    /\ procs = [p \in Procs |-> [pc |-> "start", calls |-> 0, waiting |-> FALSE,
                                 assigned |-> <<>>, metrics |-> <<>>,
                                 main_run |-> <<>>, aux_run |-> <<>>, loss_dict |-> <<>>]]
    /\ collectives = <<>>
    /\ pc = "idle" /\ main_run = <<>> /\ aux_run = <<>> /\ loss_dict = <<>>
    /\ direct = <<>>

\* compute_loss up to the all-reduce: assignment, aggregation, num_fgs = assign_metrics.sum(),
\* and the call of all_reduce when the guard holds
ProcAssign(p) ==
    /\ procs[p].pc \in {"start", "main_done"}
    /\ \E assigned \in ShardAssigned :
         LET local == fg_mass(Flatten([b \in 1..BatchSize |-> assigned[b].assign_metrics]))
             enters == enters_all_reduce(local, comm)
             n == procs[p].calls + 1
         IN  /\ procs' = [procs EXCEPT
                    ![p].pc = IF procs[p].pc = "start" THEN "main_reduce" ELSE "aux_reduce",
                    ![p].assigned = assigned,
                    ![p].metrics = Append(procs[p].metrics,
                        Flatten([b \in 1..BatchSize |-> assigned[b].assign_metrics])),
                    ![p].waiting = enters,
                    ![p].calls = IF enters THEN n ELSE procs[p].calls]
             /\ collectives' =
                    IF ~enters THEN collectives
                    ELSE IF n > Len(collectives)
                         THEN Append(collectives, [q \in {p} |-> local])
                         ELSE [collectives EXCEPT ![n] =
                                   [q \in (DOMAIN collectives[n]) \cup {p} |->
                                      IF q = p THEN local ELSE collectives[n][q]]]
    /\ UNCHANGED << self, comm, outputs, callVars, direct >>

\* the all-reduce returns once every process of the group has entered it; the rest
\* of compute_loss follows
ProcReduce(p) ==
    /\ procs[p].pc \in {"main_reduce", "aux_reduce"}
    /\ procs[p].waiting => DOMAIN collectives[procs[p].calls] = Procs
    /\ LET isMain == procs[p].pc = "main_reduce"
           local == fg_mass(procs[p].metrics[Len(procs[p].metrics)])
           reduced == IF procs[p].waiting
                      THEN all_reduce(local, SumOver(collectives[procs[p].calls], Procs \ {p}))
                      ELSE local
           bundle == IF isMain THEN outputs.main ELSE outputs.aux_outputs
           run == compute_loss(self, bundle, procs[p].assigned,
                               bind_call_args(epoch).aux_loss, bind_call_args(epoch).epoch,
                               comm, reduced)
       IN  procs' = [procs EXCEPT
                ![p].pc = IF isMain THEN "main_done" ELSE "aux_done",
                ![p].waiting = FALSE,
                ![p].assigned = <<>>,
                ![p].main_run = IF isMain THEN run ELSE procs[p].main_run,
                ![p].aux_run = IF isMain THEN procs[p].aux_run ELSE run]
    /\ UNCHANGED << self, comm, outputs, callVars, direct, collectives >>

\* the merge of the two dictionaries and the return
ProcReturn(p) ==
    /\ procs[p].pc = "aux_done"
    /\ procs' = [procs EXCEPT
            ![p].pc = "returned",
            ![p].loss_dict = merge_loss_dicts(procs[p].main_run.loss_dict,
                                              procs[p].aux_run.loss_dict)]
    /\ UNCHANGED << self, comm, outputs, callVars, direct, collectives >>

NextDist ==
    \/ \E p \in Procs : ProcAssign(p)
    \/ \E p \in Procs : ProcReduce(p)
    \/ \E p \in Procs : ProcReturn(p)

SpecDist == InitDist /\ [][NextDist]_vars


(* ------------------------------ properties ----------------------------- *)
\* max_epoch - no_aug_epoch - 1, the first epoch of the final training phase
Threshold == self.max_epoch - self.no_aug_epoch - 1

Returned == pc = "returned"
DirectReturned == direct.pc = "returned"

\* C1: the `losses` entry __call__ returns is the sum of the `losses` entries of the
\* dictionaries returned by the main and by the auxiliary compute_loss
C1_TotalIsSumOfBranches ==
    Returned => loss_dict["losses"] = main_run.loss_dict["losses"] + aux_run.loss_dict["losses"]

C1_Witness ==
    /\ Returned
    /\ main_run.loss_dict["losses"] > 0
    /\ aux_run.loss_dict["losses"] > 0
    /\ main_run.loss_dict["losses"] # aux_run.loss_dict["losses"]
    /\ loss_dict["losses"] = main_run.loss_dict["losses"] + aux_run.loss_dict["losses"]

\* C2: in the dictionary __call__ returns, every non-`losses` key k of the main branch
\* holds the main branch's value under k, and every non-`losses` key k of the auxiliary
\* branch holds the auxiliary branch's value under k + '_aux'
C2_NoEntryLost ==
    Returned =>
      /\ \A k \in (DOMAIN main_run.loss_dict) \ {"losses"} :
           k \in DOMAIN loss_dict /\ loss_dict[k] = main_run.loss_dict[k]
      /\ \A k \in (DOMAIN aux_run.loss_dict) \ {"losses"} :
           (k \o "_aux") \in DOMAIN loss_dict
           /\ loss_dict[k \o "_aux"] = aux_run.loss_dict[k]

\* C3: one compute_loss with epoch value e returns exactly {loss_cls, loss_box, losses}
\* when e < max_epoch - no_aug_epoch - 1 and exactly those keys plus loss_box_aux otherwise
C3_BranchKeys ==
    DirectReturned =>
      DOMAIN direct.run.loss_dict =
        IF direct.run.epoch < Threshold
        THEN {"loss_cls", "loss_box", "losses"}
        ELSE {"loss_cls", "loss_box", "loss_box_aux", "losses"}

C3_Witness ==
    /\ DirectReturned
    /\ Threshold > 0
    /\ direct.run.epoch = Threshold
    /\ DOMAIN direct.run.loss_dict = {"loss_cls", "loss_box", "loss_box_aux", "losses"}

\* C4: both branches of __call__ gate the auxiliary box loss on the epoch the training
\* loop passed, and the auxiliary box loss is in the returned dictionary exactly when
\* epoch >= max_epoch - no_aug_epoch - 1
C4_EpochReachesGate ==
    Returned =>
      /\ main_run.epoch = epoch
      /\ aux_run.epoch = epoch
      /\ ("loss_box_aux" \in DOMAIN main_run.loss_dict) <=> (epoch >= Threshold)
      /\ ("loss_box_aux_aux" \in DOMAIN loss_dict) <=> (epoch >= Threshold)

\* C5: in __call__ every image of the main outputs is assigned by self.matcher and
\* every image of outputs['aux_outputs'] by self.aux_matcher
C5_MatcherPerBranch ==
    Returned =>
      /\ \A b \in DOMAIN main_run.matcher_calls : main_run.matcher_calls[b] = "matcher"
      /\ \A b \in DOMAIN aux_run.matcher_calls : aux_run.matcher_calls[b] = "aux_matcher"

\* C6: the normalisation constant num_fgs of compute_loss is never below 1.0
C6_NormalizerAtLeastOne == DirectReturned => direct.run.num_fgs >= One

C6_Witness ==
    /\ DirectReturned
    /\ comm.dist /\ comm.size > 1
    /\ SumSeq(direct.run.assign_metrics) = 0
    /\ direct.run.pos_inds = <<>>
    /\ direct.run.num_fgs = One

\* C9: the `losses` entry of one branch is loss_cls_weight * loss_cls
\* + loss_box_weight * loss_box, plus loss_box_aux with weight 1 when that key is there
C9_BranchTotal ==
    DirectReturned =>
      LET d == direct.run.loss_dict
      IN  d["losses"] = self.loss_cls_weight * d["loss_cls"]
                        + self.loss_box_weight * d["loss_box"]
                        + (IF "loss_box_aux" \in DOMAIN d THEN d["loss_box_aux"] ELSE 0)

C9_Witness ==
    /\ DirectReturned
    /\ "loss_box_aux" \in DOMAIN direct.run.loss_dict
    /\ direct.run.loss_dict["loss_box_aux"] > 0
    /\ direct.run.loss_dict["loss_box"] > 0
    /\ direct.run.loss_dict["loss_cls"] > 0
    /\ direct.run.loss_dict["loss_cls"] # direct.run.loss_dict["loss_box"]
    /\ direct.run.loss_dict["losses"] =
         self.loss_cls_weight * direct.run.loss_dict["loss_cls"]
         + self.loss_box_weight * direct.run.loss_dict["loss_box"]
         + direct.run.loss_dict["loss_box_aux"]

\* C10: loss_classes replaces the zero-target loss only at [i, label[i]] of the anchors
\* i with 0 <= label[i] < C; every other entry keeps its zero-target value; and these
\* anchors are the pos_inds compute_loss uses for the box losses
C10_OverrideOnlyAtLabel ==
    DirectReturned =>
      LET r == direct.run
      IN  /\ \A i \in DOMAIN r.ce_loss :
               (i \in Range(r.pos_inds)) <=>
                 (r.cls_targets[i] >= 0 /\ r.cls_targets[i] < Len(r.cls_preds[i]))
          /\ \A i \in DOMAIN r.ce_loss : \A c \in DOMAIN r.ce_loss[i] :
               r.ce_loss[i][c] =
                 IF i \in Range(r.pos_inds) /\ c = r.cls_targets[i] + 1
                 THEN quality_focal_loss(r.cls_preds[i][c], r.assign_metrics[i])
                 ELSE zero_target_loss(r.cls_preds[i][c])

C10_Witness ==
    /\ DirectReturned
    /\ \E i \in DOMAIN direct.run.ce_loss :
         /\ i \in Range(direct.run.pos_inds)
         /\ direct.run.ce_loss[i][direct.run.cls_targets[i] + 1]
              # zero_target_loss(direct.run.cls_preds[i][direct.run.cls_targets[i] + 1])
         /\ \E c \in DOMAIN direct.run.ce_loss[i] :
              /\ c # direct.run.cls_targets[i] + 1
              /\ direct.run.ce_loss[i][c] = zero_target_loss(direct.run.cls_preds[i][c])
    /\ \E i \in DOMAIN direct.run.ce_loss : direct.run.cls_targets[i] < 0

\* the processes that have left the all-reduce of the main / of the auxiliary compute_loss
PastMainReduce(p) == procs[p].pc \in {"main_done", "aux_reduce", "aux_done", "returned"}
PastAuxReduce(p) == procs[p].pc \in {"aux_done", "returned"}

\* the sum over the group of the quality metrics of the n-th compute_loss of the step
GroupMass(n) == SumOver([q \in Procs |-> SumSeq(procs[q].metrics[n])], Procs)

\* C7: after the all-reduce every process of a group of W processes normalises by
\* max(1.0, (sum over the processes of the sum of their quality metrics) / W)
C7_SharedNormalizer ==
    \A p \in Procs :
      /\ PastMainReduce(p) =>
           procs[p].main_run.num_fgs = Max(One, GroupMass(1) \div comm.size)
      /\ PastAuxReduce(p) =>
           procs[p].aux_run.num_fgs = Max(One, GroupMass(2) \div comm.size)

C7_Witness ==
    /\ comm.size = 2
    /\ PastMainReduce(1) /\ PastMainReduce(2)
    /\ SumSeq(procs[1].metrics[1]) = 3 * One
    /\ Cardinality({i \in DOMAIN procs[1].metrics[1] : procs[1].metrics[1][i] > 0}) = 5
    /\ SumSeq(procs[2].metrics[1]) = 5 * One
    /\ procs[1].main_run.num_fgs = 4 * One
    /\ procs[2].main_run.num_fgs = 4 * One

\* the number of all-reduce calls a process has made at each position of __call__
CallsAtPosition(p) ==
    CASE procs[p].pc = "start" -> 0
      [] procs[p].pc \in {"main_reduce", "main_done"} -> 1
      [] procs[p].pc \in {"aux_reduce", "aux_done", "returned"} -> 2

AllReturned == \A p \in Procs : procs[p].pc = "returned"

\* a process that is not held inside an all-reduce some process of the group has yet to enter
Runnable(p) ==
    \/ procs[p].pc \in {"start", "main_done", "aux_done"}
    \/ /\ procs[p].pc \in {"main_reduce", "aux_reduce"}
       /\ procs[p].waiting => DOMAIN collectives[procs[p].calls] = Procs

\* C8: every process calls the all-reduce once per compute_loss, twice per __call__,
\* whatever its shard and the epoch; and the step never blocks at the all-reduce:
\* until every process has returned, some process can take its next step (every step
\* moves a process forward in __call__, so the step then ends)
C8_AllReduceTwicePerCall ==
    /\ \A p \in Procs : procs[p].calls = CallsAtPosition(p)
    /\ AllReturned \/ \E p \in Procs : Runnable(p)

C8_Witness ==
    /\ comm.size = 2
    /\ AllReturned
    /\ procs[1].calls = 2 /\ procs[2].calls = 2
    /\ SumSeq(procs[1].metrics[1]) = 0 /\ SumSeq(procs[1].metrics[2]) = 0
    /\ SumSeq(procs[2].metrics[1]) > 0
    /\ Len(collectives) = 2
====
